---- MODULE Spec2Model ----
(***************************************************************************)
(* Validator query handlers of the beacon RPC crate                        *)
(* (crates/rpc/src/handlers/validator.rs): get_validator_from_state,       *)
(* validator_status and get_validator_balances_from_state, run against a   *)
(* read-only state database.                                               *)
(***************************************************************************)
EXTENDS Integers, Sequences, FiniteSets, TLC

(* ---------------- bounds of the model ---------------- *)
MaxValidators == 2
MaxSlot == 2
MaxFilterLen == 2

(* ---------------- program constants ---------------- *)
\* if ids.len() > 1000
MAX_VALIDATOR_IDS == 1000
\* slots of one epoch, scaled down to the model's slot range
SLOTS_PER_EPOCH == 2

(* ---------------- Option and Result ---------------- *)
None == [some |-> FALSE]
Some(v) == [some |-> TRUE, val |-> v]
Ok(v) == [ok |-> TRUE, val |-> v]
Err(kind, msg) == [ok |-> FALSE, kind |-> kind, msg |-> msg]

\* slice::get / Vec::get with a zero-based index
Get(seq, i) == IF i >= 0 /\ i < Len(seq) THEN Some(seq[i + 1]) ELSE None

(* ---------------- string conversions ---------------- *)
Digit(d) == <<"0", "1", "2", "3", "4", "5", "6", "7", "8", "9">>[d + 1]

\* usize::to_string / u64::to_string: decimal digits, most significant first
RECURSIVE to_string(_)
to_string(i) == IF i < 10 THEN Digit(i) ELSE to_string(i \div 10) \o Digit(i % 10)

\* format!("{:?}", validator.pubkey): the Debug rendering of a public key
pubkey_debug(pubkey) == "PubKey(" \o to_string(pubkey) \o ")"

\* a usize narrower than the requested index: the cast wraps
as_usize_wrapping(i) == i % MaxValidators

\* `*i as usize`: usize is 64 bits wide on the targets the node is built
\* for, so the cast from u64 keeps the value
as_usize(i) == i

(* ---------------- data model ---------------- *)
Slots == 0..MaxSlot
Pubkeys == {1, 2}
ExitEpochs == {0, 1}

\* balance held at zero-based position i of a snapshot's balances sequence
BalanceAt(i) == 32 - i

\* balances sequence of length k
Balances(k) == [j \in 1..k |-> BalanceAt(j - 1)]

Validators == [pubkey : Pubkeys, exit_epoch : ExitEpochs]

SeqsUpTo(S, n) == UNION {[1..k -> S] : k \in 0..n}

NoState == [stored |-> FALSE]
StoredState(slot, validators, balances) ==
    [stored |-> TRUE, slot |-> slot, validators |-> validators, balances |-> balances]

\* BeaconState::get_current_epoch: the epoch the snapshot's slot lies in
get_current_epoch(state) == state.slot \div SLOTS_PER_EPOCH

VARIABLES db, req, resp, selected, scanned
vars == <<db, req, resp, selected, scanned>>

(* ---------------- database reads ---------------- *)
SetMax(S) == CHOOSE m \in S : \A x \in S : x <= m

StoredSlots(d) == {s \in DOMAIN d : d[s].stored}

\* SlotIndexTable::get_highest_slot: Err on a failed read, Ok(None) on an
\* empty index, else Ok(Some(highest slot))
get_highest_slot(d, read_ok) ==
    IF ~read_ok THEN Err("StoreError", "slot index read failed")
    ELSE IF StoredSlots(d) = {} THEN Ok(None)
    ELSE Ok(Some(SetMax(StoredSlots(d))))

\* state identifiers: ID::Slot(s) and ID::Head
IdSlot(s) == [tag |-> "Slot", slot |-> s]
IdHead == [tag |-> "Head", slot |-> 0]

\* get_state_from_id: InternalError when the store is unreadable, NotFound
\* when the identifier maps to no stored state, else the stored snapshot
get_state_from_id(state_id, d, read_ok) ==
    IF ~read_ok THEN Err("InternalError", "Internal server error")
    ELSE IF state_id.tag = "Head"
        THEN IF StoredSlots(d) = {}
             THEN Err("NotFound", "Failed to find highest slot")
             ELSE Ok(d[SetMax(StoredSlots(d))])
        ELSE IF state_id.slot \in DOMAIN d /\ d[state_id.slot].stored
             THEN Ok(d[state_id.slot])
             ELSE Err("NotFound", "Failed to find state")

(* ---------------- validator_status ---------------- *)
\* the slot index error passed on without map_err
validator_status_raw_error(validator, d, fault) ==
    LET highest == get_highest_slot(d, fault # "slot_index") IN
    IF ~highest.ok THEN highest
    ELSE IF ~highest.val.some THEN Err("NotFound", "Failed to find highest slot")
    ELSE LET state == get_state_from_id(IdSlot(highest.val.val), d, fault # "head_state") IN
         IF ~state.ok THEN state
         ELSE IF validator.exit_epoch < get_current_epoch(state.val)
              THEN Ok("offline")
              ELSE Ok("active_ongoing")

\* fault names the one database read that fails during the call, if any:
\* "none", "target_state", "slot_index" or "head_state"
validator_status_inclusive(validator, d, fault) ==
    LET highest == get_highest_slot(d, fault # "slot_index") IN
    IF ~highest.ok THEN Err("InternalError", "Internal server error")
    ELSE IF ~highest.val.some THEN Err("NotFound", "Failed to find highest slot")
    ELSE LET state == get_state_from_id(IdSlot(highest.val.val), d, fault # "head_state") IN
         IF ~state.ok THEN state
         ELSE IF validator.exit_epoch <= get_current_epoch(state.val)
              THEN Ok("offline")
              ELSE Ok("active_ongoing")

validator_status(validator, d, fault) ==
    LET highest == get_highest_slot(d, fault # "slot_index") IN
    IF ~highest.ok THEN Err("InternalError", "Internal server error")
    ELSE IF ~highest.val.some THEN Err("NotFound", "Failed to find highest slot")
    ELSE LET state == get_state_from_id(IdSlot(highest.val.val), d, fault # "head_state") IN
         IF ~state.ok THEN state
         ELSE IF validator.exit_epoch < get_current_epoch(state.val)
              THEN Ok("offline")
              ELSE Ok("active_ongoing")

(* ---------------- get_validator_from_state ---------------- *)
VidIndex(i) == [tag |-> "Index", id |-> i]
VidAddress(k) == [tag |-> "Address", id |-> k]

\* the scan keeps the last match instead of stopping at the first
find_pubkey_last(validators, pubkey) ==
    LET hits == {i \in 0..(Len(validators) - 1) : validators[i + 1].pubkey = pubkey} IN
    IF hits = {} THEN None
    ELSE LET i == CHOOSE h \in hits : \A g \in hits : h >= g IN
         Some(<<i, validators[i + 1]>>)

\* state.validators.iter().enumerate().find(|(_, v)| v.pubkey == *pubkey)
find_pubkey(validators, pubkey) ==
    LET hits == {i \in 0..(Len(validators) - 1) : validators[i + 1].pubkey = pubkey} IN
    IF hits = {} THEN None
    ELSE LET i == CHOOSE h \in hits : \A g \in hits : h <= g IN
         Some(<<i, validators[i + 1]>>)

\* the match on validator_id: the (index, validator) pair or ValidatorNotFound
lookup_validator(state, validator_id) ==
    IF validator_id.tag = "Index"
    THEN LET v == Get(state.validators, as_usize(validator_id.id)) IN
         IF v.some THEN Ok(<<as_usize(validator_id.id), v.val>>)
         ELSE Err("ValidatorNotFound", <<"Validator not found for index: ", validator_id.id>>)
    ELSE LET f == find_pubkey(state.validators, validator_id.id) IN
         IF f.some THEN Ok(f.val)
         ELSE Err("ValidatorNotFound", <<"Validator not found for pubkey: ", validator_id.id>>)

\* the two u64 arguments taken in the other order
ValidatorData_swapped(index, balance, status, validator) ==
    [index |-> balance, balance |-> index, status |-> status, validator |-> validator]

\* ValidatorData::new
ValidatorData(index, balance, status, validator) ==
    [index |-> index, balance |-> balance, status |-> status, validator |-> validator]

\* the error of the lookup above reused for the missing balance
missing_balance_error_as_validator(index) ==
    Err("ValidatorNotFound", <<"Validator not found for index: ", index>>)

\* state.balances.get(index).ok_or(ApiError::NotFound(..))
missing_balance_error(index) ==
    Err("NotFound", <<"Validator not found for index: ", index>>)

get_validator_from_state(state_id, validator_id, d, fault) ==
    LET state == get_state_from_id(state_id, d, fault # "target_state") IN
    IF ~state.ok THEN state
    ELSE LET found == lookup_validator(state.val, validator_id) IN
         IF ~found.ok THEN found
         ELSE LET index == found.val[1]
                  validator == found.val[2]
                  balance == Get(state.val.balances, index) IN
              IF ~balance.some
              THEN missing_balance_error(index)
              ELSE LET status == validator_status(validator, d, fault) IN
                   IF ~status.ok THEN status
                   ELSE Ok(ValidatorData(index, balance.val, status.val, validator))

\* the (index, validator) pair the handler has bound when it leaves the
\* match on validator_id, None when it returned before or inside it
selected_validator(state_id, validator_id, d, fault) ==
    LET state == get_state_from_id(state_id, d, fault # "target_state") IN
    IF ~state.ok THEN None
    ELSE LET found == lookup_validator(state.val, validator_id) IN
         IF found.ok THEN Some(found.val) ELSE None

(* ---------------- get_validator_balances_from_state ---------------- *)
\* ids.into_iter().collect::<HashSet<String>>()
collect_set(ids) == {ids[j] : j \in DOMAIN ids}

\* an empty list kept as an empty filter set
normalize_filter_keep_empty(query) ==
    IF query.some THEN Some(collect_set(query.val)) ELSE None

\* the match on query.id: None for an absent or empty list, else the set
normalize_filter(query) ==
    IF query.some /\ Len(query.val) = 0 THEN None
    ELSE IF query.some THEN Some(collect_set(query.val))
    ELSE None

\* the limit tested with >= in place of >
too_many_ids_inclusive(query) ==
    LET filter == normalize_filter(query) IN
    filter.some /\ Cardinality(filter.val) >= MAX_VALIDATOR_IDS

\* the limit tested on the supplied list instead of the collected set
too_many_ids_by_list_len(query) ==
    query.some /\ Len(query.val) > MAX_VALIDATOR_IDS

\* if let Some(ref ids) = filter { if ids.len() > 1000 { ... } }
too_many_ids(query) ==
    LET filter == normalize_filter(query) IN
    filter.some /\ Cardinality(filter.val) > MAX_VALIDATOR_IDS

\* the two membership tests joined with || : dropped unless both match
keeps_both(filter, i, validator) ==
    ~(filter.some /\ (filter.val \cap {to_string(i)} = {}
                      \/ filter.val \cap {pubkey_debug(validator.pubkey)} = {}))

\* the filter_map closure's test: TRUE when index i is kept
keeps(filter, i, validator) ==
    ~(filter.some /\ (filter.val \cap {to_string(i)} = {}
                      /\ filter.val \cap {pubkey_debug(validator.pubkey)} = {}))

\* state.balances.get(i).unwrap_or(&0)
balance_or_zero(state, i) ==
    LET b == Get(state.balances, i) IN IF b.some THEN b.val ELSE 0

ValidatorBalance(index, balance) == [index |-> index, balance |-> balance]

\* state.validators.iter().enumerate().filter_map(..).collect()
scan_validators(state, filter) ==
    LET all == [j \in 1..Len(state.validators) |-> j - 1]
        kept == SelectSeq(all, LAMBDA i : keeps(filter, i, state.validators[i + 1]))
    IN [j \in 1..Len(kept) |->
           ValidatorBalance(to_string(kept[j]), to_string(balance_or_zero(state, kept[j])))]

get_validator_balances_from_state(state_id, query, d, fault) ==
    LET state == get_state_from_id(state_id, d, fault # "target_state") IN
    IF ~state.ok THEN state
    ELSE IF too_many_ids(query)
         THEN Err("TooManyValidatorIds", "Too many validator IDs in request")
         ELSE Ok([execution_optimistic |-> FALSE, finalized |-> FALSE,
                  data |-> scan_validators(state.val, normalize_filter(query))])

\* number of validators the iterator has visited when the handler returns
validators_scanned(state_id, query, d, fault) ==
    LET state == get_state_from_id(state_id, d, fault # "target_state") IN
    IF ~state.ok \/ too_many_ids(query) THEN 0 ELSE Len(state.val.validators)

(* ---------------- request inputs ---------------- *)
StateIds == {IdSlot(s) : s \in Slots} \cup {IdHead}

\* indices up to one past the longest validators sequence; every pubkey a
\* validator may hold and one (3) that none holds
ValidatorIds == {VidIndex(i) : i \in 0..(MaxValidators + 1)}
                   \cup {VidAddress(k) : k \in Pubkeys \cup {3}}

\* id strings a caller may put in a short filter
SmallIds == {to_string(0), to_string(1), pubkey_debug(1)}

\* n id strings cycling through the first m decimal strings
cycle_ids(n, m) == [j \in 1..n |-> to_string((j - 1) % m)]

AtLimit == cycle_ids(MAX_VALIDATOR_IDS, MAX_VALIDATOR_IDS)
OverLimit == cycle_ids(MAX_VALIDATOR_IDS + 1, MAX_VALIDATOR_IDS + 1)
OverLimitRepeated == cycle_ids(MAX_VALIDATOR_IDS + 1, MAX_VALIDATOR_IDS)
LongRepeated == cycle_ids(MAX_VALIDATOR_IDS + 1, 1)

ShortQueries == {None} \cup {Some(l) : l \in SeqsUpTo(SmallIds, MaxFilterLen)}
LongQueries == {Some(AtLimit), Some(OverLimit), Some(OverLimitRepeated), Some(LongRepeated)}

\* balance requests: short filters on every state id with and without a
\* failing read, filters around the id limit on the head state
BalanceRequests ==
    (StateIds \X ShortQueries \X {"none", "target_state"})
        \cup ({IdHead} \X LongQueries \X {"none"})

(* ---------------- state machine ---------------- *)
NoRequest == [op |-> "none"]

\* databases holding a state for every slot up to the head (none when the
\* chain is empty); balances may fall short of the validators
Databases ==
    {[s \in Slots |-> IF s <= head THEN StoredState(s, vb[1], Balances(vb[2])) ELSE NoState] :
        head \in -1..MaxSlot,
        vb \in {x \in SeqsUpTo(Validators, MaxValidators) \X (0..MaxValidators) :
                    x[2] <= Len(x[1])}}

Init ==
    /\ db \in Databases
    /\ req = NoRequest
    /\ resp = None
    /\ selected = None
    /\ scanned = 0

\* runs once on the request being served
GetValidator ==
    /\ req = NoRequest
    /\ \E state_id \in StateIds, validator_id \in ValidatorIds,
          fault \in {"none", "target_state", "slot_index", "head_state"} :
           /\ req' = [op |-> "get_validator", state_id |-> state_id,
                      validator_id |-> validator_id, fault |-> fault]
           /\ resp' = Some(get_validator_from_state(state_id, validator_id, db, fault))
           /\ selected' = selected_validator(state_id, validator_id, db, fault)
           /\ scanned' = 0
           /\ UNCHANGED db

\* runs once on the request being served
ValidatorStatus ==
    /\ req = NoRequest
    /\ \E validator \in Validators, fault \in {"none", "slot_index", "head_state"} :
           /\ req' = [op |-> "validator_status", validator |-> validator, fault |-> fault]
           /\ resp' = Some(validator_status(validator, db, fault))
           /\ selected' = None
           /\ scanned' = 0
           /\ UNCHANGED db

\* runs once on the request being served
GetBalances ==
    /\ req = NoRequest
    /\ \E r \in BalanceRequests :
         LET state_id == r[1]
             query == r[2]
             fault == r[3] IN
           /\ req' = [op |-> "get_balances", state_id |-> state_id,
                      query |-> query, fault |-> fault]
           /\ resp' = Some(get_validator_balances_from_state(state_id, query, db, fault))
           /\ selected' = None
           /\ scanned' = validators_scanned(state_id, query, db, fault)
           /\ UNCHANGED db

Next == GetValidator \/ ValidatorStatus \/ GetBalances

Spec == Init /\ [][Next]_vars

(* ======================= properties ======================= *)
ServesState == req.op \in {"get_validator", "get_balances"}

\* outcome of resolving the request's state identifier
Target == get_state_from_id(req.state_id, db, req.fault # "target_state")

\* the request's state identifier resolved to a snapshot
Resolved == ServesState /\ Target.ok

S == Target.val

ByIndex == req.op = "get_validator" /\ req.validator_id.tag = "Index"
ByPubkey == req.op = "get_validator" /\ req.validator_id.tag = "Address"

Failed(kind) == resp.some /\ ~resp.val.ok /\ resp.val.kind = kind
Succeeded == resp.some /\ resp.val.ok

\* epoch of the state stored at the highest slot
HeadEpoch == SetMax(StoredSlots(db)) \div SLOTS_PER_EPOCH

\* distinct strings of the request's id list
DistinctIds == {req.query.val[j] : j \in DOMAIN req.query.val}

\* indices of S a non-empty id list names, by decimal index or by pubkey
Named ==
    {i \in 0..(Len(S.validators) - 1) :
        \E j \in DOMAIN req.query.val :
            \/ req.query.val[j] = to_string(i)
            \/ req.query.val[j] = pubkey_debug(S.validators[i + 1].pubkey)}

\* indices of S the id set names, by decimal index or by pubkey
NamedBy(ids) ==
    {i \in 0..(Len(S.validators) - 1) :
        to_string(i) \in ids \/ pubkey_debug(S.validators[i + 1].pubkey) \in ids}

\* the listing entry of index i of S
Entry(i) ==
    [index |-> to_string(i),
     balance |-> IF i < Len(S.balances) THEN to_string(S.balances[i + 1]) ELSE "0"]

\* data lists exactly the indices of M, once each, in ascending order
ListsExactly(data, M) ==
    /\ Len(data) = Cardinality(M)
    /\ \A i \in M : \E j \in DOMAIN data : data[j] = Entry(i)
    /\ \A j \in DOMAIN data : \E i \in M : data[j] = Entry(i)
    /\ \A j, k \in DOMAIN data :
          j < k => \E a, b \in M : a < b /\ data[j] = Entry(a) /\ data[k] = Entry(b)

\* a valid index lookup: ByIndex(i) with i inside S.validators
ValidIndex == Resolved /\ ByIndex /\ req.validator_id.id < Len(S.validators)

\* status derivation for the validator at index i of S succeeds
StatusDerives(i) == validator_status(S.validators[i + 1], db, req.fault).ok

\* C1 as stated: every ByIndex(i) with i < len(S.validators) on a resolved
\* snapshot returns a view with index i, validator S.validators[i] and
\* balance S.balances[i] (read on the snapshots the data model admits, whose
\* balances are co-indexed with their validators).
C1_AsStated ==
    (ValidIndex /\ Len(S.balances) = Len(S.validators)) =>
        LET i == req.validator_id.id IN
        /\ Succeeded
        /\ resp.val.val.index = i
        /\ resp.val.val.validator = S.validators[i + 1]
        /\ resp.val.val.balance = S.balances[i + 1]

\* C1 amended: ByIndex(i) with i < len(S.validators) succeeds exactly when
\* S.balances has an entry at i and status derivation succeeds, and the
\* view then has index i, validator S.validators[i] and balance
\* S.balances[i].
C1_ValidIndexView ==
    ValidIndex =>
        LET i == req.validator_id.id IN
        /\ Succeeded <=> (i < Len(S.balances) /\ StatusDerives(i))
        /\ Succeeded =>
              /\ resp.val.val.index = i
              /\ resp.val.val.validator = S.validators[i + 1]
              /\ resp.val.val.balance = S.balances[i + 1]

C1_Witness ==
    /\ ValidIndex /\ Succeeded
    /\ req.validator_id.id = 1
    /\ resp.val.val.index = 1
    /\ resp.val.val.balance = BalanceAt(1)
    /\ S.validators[1] # S.validators[2]

\* C2: on a resolved snapshot ByIndex(i) with i >= len(S.validators) fails
\* with ValidatorNotFound, never InternalError, whichever database read is
\* failing.
C2_OutOfRangeIndex ==
    (Resolved /\ ByIndex /\ req.validator_id.id >= Len(S.validators)) =>
        /\ Failed("ValidatorNotFound")
        /\ ~Failed("InternalError")
        /\ resp.val.msg[2] = req.validator_id.id

C2_Witness ==
    /\ Resolved /\ ByIndex
    /\ Len(S.validators) > 0
    /\ req.validator_id.id = Len(S.validators)
    /\ req.fault = "slot_index"
    /\ Failed("ValidatorNotFound")

\* indices of S whose validator has pubkey k
Holders(k) == {i \in 0..(Len(S.validators) - 1) : S.validators[i + 1].pubkey = k}

\* C3: ByPubkey(k) selects the validator at the lowest index whose pubkey is
\* k and reports that index; with no such validator the result is
\* ValidatorNotFound.
C3_FirstPubkeyMatch ==
    (Resolved /\ ByPubkey) =>
        LET k == req.validator_id.id IN
        IF Holders(k) = {}
        THEN Failed("ValidatorNotFound") /\ ~selected.some
        ELSE LET j == CHOOSE h \in Holders(k) : \A g \in Holders(k) : h <= g IN
             /\ selected = Some(<<j, S.validators[j + 1]>>)
             /\ ~Failed("ValidatorNotFound")
             /\ Succeeded => (resp.val.val.index = j
                              /\ resp.val.val.validator = S.validators[j + 1])

C3_Witness ==
    /\ Resolved /\ ByPubkey /\ Succeeded
    /\ Cardinality(Holders(req.validator_id.id)) = 2
    /\ S.validators[1] # S.validators[2]
    /\ resp.val.val.index = 0

\* the validator and the status a successful status derivation reports
StatusOf == IF req.op = "validator_status" THEN resp.val.val ELSE resp.val.val.status
StatusValidator == IF req.op = "validator_status" THEN req.validator ELSE resp.val.val.validator

\* C4: the derived status is "offline" iff the validator's exit_epoch is
\* below the current epoch of the head snapshot (the state at the highest
\* slot), else "active_ongoing", equality included; the queried snapshot's
\* own epoch plays no part.
C4_StatusAgainstHead ==
    (req.op \in {"validator_status", "get_validator"} /\ Succeeded) =>
        /\ StatusOf \in {"offline", "active_ongoing"}
        /\ StatusOf = "offline" <=> StatusValidator.exit_epoch < HeadEpoch

C4_Witness ==
    /\ req.op = "get_validator" /\ Succeeded
    /\ get_current_epoch(S) < HeadEpoch
    /\ resp.val.val.validator.exit_epoch = get_current_epoch(S)
    /\ resp.val.val.status = "offline"

\* the full listing of S: one entry per validator index, in order
FullListing == [j \in 1..Len(S.validators) |-> Entry(j - 1)]

Unfiltered == req.op = "get_balances" /\ (~req.query.some \/ req.query.val = <<>>)

\* C5: an absent filter and an empty filter list give the same result, the
\* full unfiltered listing with one entry per validator index.
C5_EmptyMeansAll ==
    (Resolved /\ Unfiltered) =>
        /\ Succeeded
        /\ resp.val.val.data = FullListing
        /\ Len(resp.val.val.data) = Len(S.validators)

C5_Witness ==
    /\ Resolved /\ req.op = "get_balances"
    /\ req.query = Some(<<>>)
    /\ Succeeded
    /\ Len(resp.val.val.data) = MaxValidators

Filtered == req.op = "get_balances" /\ req.query.some /\ req.query.val # <<>>

\* C6: a filter of 1001 distinct ids is rejected with TooManyValidatorIds
\* before any validator is scanned; a filter of exactly 1000 distinct ids is
\* not rejected and succeeds.
C6_IdLimit ==
    (Resolved /\ Filtered) =>
        /\ Cardinality(DistinctIds) = MAX_VALIDATOR_IDS + 1 =>
              (Failed("TooManyValidatorIds") /\ scanned = 0)
        /\ Cardinality(DistinctIds) = MAX_VALIDATOR_IDS => Succeeded

C6_Witness ==
    /\ Resolved /\ Filtered
    /\ Len(req.query.val) = MAX_VALIDATOR_IDS + 1
    /\ Cardinality(DistinctIds) = MAX_VALIDATOR_IDS + 1
    /\ Len(S.validators) > 0
    /\ Failed("TooManyValidatorIds")
    /\ scanned = 0

\* C7: with a non-empty filter of at most 1000 ids the result lists exactly
\* the indices whose decimal string or pubkey string is in the filter, in
\* strictly ascending order, each once.
C7_FilteredListing ==
    (Resolved /\ Filtered /\ Cardinality(DistinctIds) <= MAX_VALIDATOR_IDS) =>
        /\ Succeeded
        /\ ListsExactly(resp.val.val.data, Named)

C7_Witness ==
    /\ Resolved /\ Filtered /\ Succeeded
    /\ Len(S.validators) = 2
    /\ req.query.val = <<to_string(1), pubkey_debug(S.validators[2].pubkey)>>
    /\ S.validators[1].pubkey # S.validators[2].pubkey
    /\ resp.val.val.data = <<Entry(1)>>

\* indices of S that have a validator but no balance entry
Unbalanced == {i \in 0..(Len(S.validators) - 1) : i >= Len(S.balances)}

\* C8: for an index with a validator but no balance entry, getBalances
\* still succeeds and lists it with balance 0, while getValidator for that
\* index fails with NotFound (not ValidatorNotFound, not InternalError).
C8_MissingBalance ==
    /\ (Resolved /\ req.op = "get_balances" /\ Succeeded) =>
          \A i \in Unbalanced :
              /\ \A j \in DOMAIN resp.val.val.data :
                    resp.val.val.data[j].index = to_string(i)
                        => resp.val.val.data[j].balance = "0"
              /\ Unfiltered => resp.val.val.data[i + 1] = [index |-> to_string(i), balance |-> "0"]
    /\ (Resolved /\ req.op = "get_validator" /\ selected.some
            /\ selected.val[1] \in Unbalanced) =>
          /\ Failed("NotFound")
          /\ resp.val.msg[2] = selected.val[1]

C8_Witness ==
    /\ Resolved /\ req.op = "get_balances" /\ Succeeded
    /\ Len(S.balances) = 1
    /\ Len(S.validators) = 2
    /\ resp.val.val.data =
          <<[index |-> "0", balance |-> to_string(BalanceAt(0))], [index |-> "1", balance |-> "0"]>>

ErrorKinds == {"NotFound", "ValidatorNotFound", "TooManyValidatorIds", "InternalError"}

\* a complete success response of the request's operation
CompleteSuccess ==
    /\ resp.val.ok
    /\ req.op = "get_validator" =>
          /\ DOMAIN resp.val.val = {"index", "balance", "status", "validator"}
          /\ selected.some
          /\ resp.val.val.index = selected.val[1]
          /\ resp.val.val.validator = selected.val[2]
    /\ req.op = "get_balances" =>
          /\ DOMAIN resp.val.val = {"execution_optimistic", "finalized", "data"}
          /\ scanned = Len(S.validators)
    /\ req.op = "validator_status" => resp.val.val \in {"offline", "active_ongoing"}

\* getValidator has reached status derivation: validator and balance found
ReachedStatus ==
    /\ Resolved /\ req.op = "get_validator"
    /\ selected.some /\ selected.val[1] < Len(S.balances)

\* C9: every request ends in one outcome, a complete success or one error
\* of the four kinds; a state resolution failure (target or head) reaches
\* the caller unchanged, a slot-index read failure during status derivation
\* gives InternalError, an empty slot index gives NotFound.
C9_SingleOutcome ==
    resp.some =>
        /\ CompleteSuccess \/ (~resp.val.ok /\ resp.val.kind \in ErrorKinds)
        /\ (ServesState /\ ~Target.ok) => resp.val = Target
        /\ (ReachedStatus \/ req.op = "validator_status") =>
              /\ req.fault = "slot_index" => Failed("InternalError")
              /\ (req.fault # "slot_index" /\ StoredSlots(db) = {}) => Failed("NotFound")
              /\ (req.fault = "head_state" /\ StoredSlots(db) # {}) =>
                    resp.val = get_state_from_id(IdHead, db, FALSE)

C9_Witness ==
    /\ ReachedStatus
    /\ req.fault = "slot_index"
    /\ Failed("InternalError")

\* C10: the cap counts distinct id strings: a list of more than 1000
\* entries with at most 1000 distinct strings is not rejected and is
\* answered as the filter of its distinct ids.
C10_LimitOnDistinctIds ==
    (Resolved /\ Filtered /\ Len(req.query.val) > MAX_VALIDATOR_IDS
        /\ Cardinality(DistinctIds) <= MAX_VALIDATOR_IDS) =>
        /\ ~Failed("TooManyValidatorIds")
        /\ Succeeded
        /\ ListsExactly(resp.val.val.data, NamedBy(DistinctIds))

C10_Witness ==
    /\ Resolved /\ Filtered /\ Succeeded
    /\ Len(req.query.val) = MAX_VALIDATOR_IDS + 1
    /\ Cardinality(DistinctIds) = 1
    /\ Len(S.validators) = 2
    /\ resp.val.val.data = <<Entry(0)>>
====
